---- MODULE Spec2Model ----
(***************************************************************************)
(* Model of src/main.py: the captive portal's DNS redirector (DNSQuery,    *)
(* MyApp.run_dns_server) and HTTP file server (MyApp.handle_http_          *)
(* connection) running as tasks of one cooperative uasyncio event loop.    *)
(*                                                                         *)
(* Bytes objects are sequences of 0..255, Python strings are sequences of  *)
(* code points.  Python positions are 0-based: data[i] is data[i + 1] here.*)
(***************************************************************************)
EXTENDS Integers, Sequences, FiniteSets, Bags, TLC

----------------------------------------------------------------------------
(* Bounds of the model                                                     *)

MaxRawBody == 3        \* raw question bodies: every byte string up to this length
MaxLabels == 2         \* names encoded for the parser: up to this many labels

----------------------------------------------------------------------------
(* Python primitives                                                       *)

Min(a, b) == IF a < b THEN a ELSE b

\* s[a:b] for 0 <= a: never raises, clamps both ends to len(s)
PySlice(s, a, b) == SubSeq(s, Min(a, Len(s)) + 1, Min(b, Len(s)))

\* s[a:]
PySliceFrom(s, a) == SubSeq(s, Min(a, Len(s)) + 1, Len(s))

\* s[i] is defined for 0 <= i < len(s); outside it raises IndexError
InRange(s, i) == 0 <= i /\ i < Len(s)

DOT == 46              \* ord('.')

\* bytes.decode('utf-8'): number of continuation bytes a lead byte asks for,
\* -1 for a byte that cannot start a character
Utf8Need(c) ==
    IF c < 128 THEN 0
    ELSE IF c < 192 THEN -1
    ELSE IF c < 224 THEN 1
    ELSE IF c < 240 THEN 2
    ELSE IF c < 248 THEN 3
    ELSE -1

Utf8IsCont(c) == c >= 128 /\ c < 192

\* payload bits of a lead byte that asks for n continuation bytes
Utf8LeadBits(c, n) ==
    IF n = 0 THEN c
    ELSE IF n = 1 THEN c % 32
    ELSE IF n = 2 THEN c % 16
    ELSE c % 8

RECURSIVE Utf8Tail(_, _, _, _)
\* code point of a character whose lead bits are acc and whose n continuation
\* bytes start at position i (0-based) of raw; -1 if one of them is missing
Utf8Tail(raw, i, n, acc) ==
    IF n = 0 THEN acc
    ELSE IF ~InRange(raw, i) \/ ~Utf8IsCont(raw[i + 1]) THEN -1
    ELSE Utf8Tail(raw, i + 1, n - 1, acc * 64 + (raw[i + 1] % 64))

DecodeError == <<-1>>

RECURSIVE Utf8DecodeFrom(_, _, _)
Utf8DecodeFrom(raw, i, out) ==
    IF i >= Len(raw) THEN out
    ELSE LET c == raw[i + 1]
             n == Utf8Need(c)
         IN IF n < 0 THEN DecodeError
            ELSE LET cp == Utf8Tail(raw, i + 1, n, Utf8LeadBits(c, n))
                 IN IF cp < 0 THEN DecodeError
                    ELSE \* the next position and the text so far, each evaluated once
                         CHOOSE r \in {Utf8DecodeFrom(raw, j, o) :
                                        j \in {i + 1 + n}, o \in {Append(out, cp)}} : TRUE

\* raw.decode('utf-8'): the code points, or DecodeError (UnicodeError raised)
Utf8Decode(raw) == Utf8DecodeFrom(raw, 0, <<>>)

\* str.encode('utf-8') of one code point below 0x800 (what a client does to
\* put a label on the wire)
Utf8EncodeChar(cp) ==
    IF cp < 128 THEN <<cp>>
    ELSE <<192 + (cp \div 64), 128 + (cp % 64)>>

RECURSIVE Utf8Encode(_)
Utf8Encode(s) ==
    IF s = <<>> THEN <<>> ELSE Utf8EncodeChar(Head(s)) \o Utf8Encode(Tail(s))

\* int(s) for a text of decimal digits: the sum of the digits weighted by their
\* powers of ten; any other text raises ValueError (-1 here)
PyInt(s) ==
    IF s = <<>> \/ \E i \in 1..Len(s) : s[i] < 48 \/ s[i] > 57 THEN -1
    ELSE LET w == [i \in 1..Len(s) |-> (s[i] - 48) * 10^(Len(s) - i)]
         IN BagCardinality([i \in {j \in 1..Len(s) : w[j] > 0} |-> w[i]])

\* s.split('.'): the pieces between the dots (always at least one piece)
SplitDots(s) ==
    LET dots == {i \in 1..Len(s) : s[i] = DOT}
        n == Cardinality(dots)
        dot(k) == IF k = 0 THEN 0
                  ELSE IF k = n + 1 THEN Len(s) + 1
                  ELSE CHOOSE i \in dots : Cardinality({j \in dots : j < i}) = k - 1
    IN [k \in 1..(n + 1) |-> SubSeq(s, dot(k - 1) + 1, dot(k) - 1)]

\* str(n) for n >= 0
RECURSIVE DecStr(_)
DecStr(n) ==
    IF n < 10 THEN <<48 + n>> ELSE Append(DecStr(n \div 10), 48 + (n % 10))

\* the dotted-quad text of four octets
FormatIp(o) ==
    DecStr(o[1]) \o <<DOT>> \o DecStr(o[2]) \o <<DOT>> \o DecStr(o[3]) \o <<DOT>> \o DecStr(o[4])

----------------------------------------------------------------------------
(* class DNSQuery                                                          *)

\* Opcode bits: (data[2] >> 3) & 15
Opcode(data) == (data[3] \div 8) % 16

RECURSIVE LabelLoopShortStep(_, _, _, _)
\* the label loop with the cursor advanced by lon instead of lon + 1
LabelLoopShortStep(data, ini, domain, reads) ==
    IF ~InRange(data, ini)
    THEN [raised |-> "IndexError", data |-> data, domain |-> domain, ini |-> ini,
          reads |-> reads]
    ELSE IF data[ini + 1] = 0
    THEN [raised |-> "none", data |-> data, domain |-> domain, ini |-> ini,
          reads |-> reads + 1]
    ELSE LET text == Utf8Decode(PySlice(data, ini + 1, ini + data[ini + 1] + 1)) IN
         IF text = DecodeError
         THEN [raised |-> "UnicodeError", data |-> data, domain |-> domain, ini |-> ini,
               reads |-> reads + 1]
         ELSE LabelLoopShortStep(data, ini + data[ini + 1], domain \o text \o <<DOT>>,
                                 reads + 1)

RECURSIVE LabelLoop(_, _, _, _)
\* The while loop of DNSQuery.__init__, entered with lon = data[ini] about to
\* be read (lon is data[ini + 1] here).  reads counts the length bytes read so
\* far.  The result is the object under construction, or the exception raised.
LabelLoop(data, ini, domain, reads) ==
    IF ~InRange(data, ini)
    THEN [raised |-> "IndexError", data |-> data, domain |-> domain, ini |-> ini,
          reads |-> reads]
    ELSE IF data[ini + 1] = 0
    THEN [raised |-> "none", data |-> data, domain |-> domain, ini |-> ini,
          reads |-> reads + 1]
    ELSE LET text == Utf8Decode(PySlice(data, ini + 1, ini + data[ini + 1] + 1)) IN
         IF text = DecodeError
         THEN [raised |-> "UnicodeError", data |-> data, domain |-> domain, ini |-> ini,
               reads |-> reads + 1]
         ELSE LabelLoop(data, ini + data[ini + 1] + 1, domain \o text \o <<DOT>>, reads + 1)

\* DNSQuery(data): the constructed object, or the exception the constructor raised
DNSQuery(data) ==
    IF ~InRange(data, 2)
    THEN [raised |-> "IndexError", data |-> data, domain |-> <<>>, ini |-> 0, reads |-> 0]
    ELSE IF Opcode(data) = 0
         THEN LabelLoop(data, 12, <<>>, 0)
         ELSE [raised |-> "none", data |-> data, domain |-> <<>>, ini |-> 0, reads |-> 0]

\* bytes(map(int, ip.split('.'))): int() raises ValueError on a piece that is
\* not a number and bytes() on a number above 255 (<<-1>> here)
IpBytes(ip) ==
    LET parts == SplitDots(ip) IN
    IF \E k \in 1..Len(parts) : PyInt(parts[k]) < 0 \/ PyInt(parts[k]) > 255
    THEN <<-1>>
    ELSE [k \in 1..Len(parts) |-> PyInt(parts[k])]

\* the header with the answer count taken from the query's own ANCOUNT field
RespHeaderOwnAnCount(data) ==
    PySlice(data, 0, 2) \o <<129, 128>> \o PySlice(data, 4, 6) \o PySlice(data, 6, 8)
    \o <<0, 0, 0, 0>>

\* packet = self.data[:2] + b'\x81\x80'; packet += self.data[4:6] + self.data[4:6]
\* + b'\x00\x00\x00\x00'
RespHeader(data) ==
    PySlice(data, 0, 2) \o <<129, 128>> \o PySlice(data, 4, 6) \o PySlice(data, 4, 6)
    \o <<0, 0, 0, 0>>

\* packet += self.data[12:]
RespQuestion(data) == PySliceFrom(data, 12)

\* the answer record with the address bytes in host (little-endian) order
RespAnswerReversed(octets) ==
    <<192, 12>> \o <<0, 1, 0, 1, 0, 0, 0, 60, 0, 4>>
    \o [i \in 1..Len(octets) |-> octets[Len(octets) + 1 - i]]

\* pointer to the name, type A, class IN, TTL 60, length 4, and the 4 bytes of ip
RespAnswer(octets) == <<192, 12>> \o <<0, 1, 0, 1, 0, 0, 0, 60, 0, 4>> \o octets

\* response() with packet = b'' assigned before the if
EmptyPacket == [raised |-> "none", packet |-> <<>>]

\* "return packet" when the if body did not run: the local was never
\* assigned, so the read raises (UnboundLocalError, a NameError)
UnassignedPacket == [raised |-> "NameError", packet |-> <<>>]

\* the body of response() once bytes(map(int, ip.split('.'))) is evaluated
ResponseWith(q, octets) ==
    IF q.domain # <<>>
    THEN IF octets = <<-1>>
         THEN [raised |-> "ValueError", packet |-> <<>>]
         ELSE [raised |-> "none",
               packet |-> RespHeader(q.data) \o RespQuestion(q.data) \o RespAnswer(octets)]
    ELSE UnassignedPacket

\* DNSQuery.response(ip): the packet, or the exception raised
Response(q, ip) == ResponseWith(q, IpBytes(ip))

SERVER_IP == <<49, 48, DOT, 48, DOT, 48, DOT, 49>>     \* '10.0.0.1'

\* bytes(map(int, SERVER_IP.split('.'))): the same value in every cycle
ServerIpBytes == IpBytes(SERVER_IP)

----------------------------------------------------------------------------
(* Inputs the parser and the response builder are exercised on             *)

SeqsUpTo(S, n) == UNION {[1..k -> S] : k \in 0..n}

\* 12-byte headers: id, flags, QDCOUNT, ANCOUNT, NSCOUNT, ARCOUNT
HdrQuery == <<170, 187, 1, 0, 0, 1, 0, 0, 0, 0, 0, 0>>      \* opcode 0, RD, one question
HdrTwoQ == <<18, 52, 128, 0, 0, 2, 0, 0, 0, 0, 0, 1>>       \* opcode 0 (QR set), two questions
HdrStatus == <<170, 187, 16, 0, 0, 1, 0, 0, 0, 0, 0, 0>>    \* opcode 2
HdrUpdate == <<7, 9, 41, 0, 0, 1, 0, 0, 0, 0, 0, 0>>        \* opcode 5
Headers == {HdrQuery, HdrTwoQ, HdrStatus, HdrUpdate}
Opcode0Headers == {h \in Headers : Opcode(h) = 0}

\* bytes raw question bodies are made of: 0, small lengths, 'a', and the lead
\* byte of a two-byte character
RawBytes == {0, 1, 2, 97, 195}
RawBodies == SeqsUpTo(RawBytes, MaxRawBody)

LabelExample == <<101, 120, 97, 109, 112, 108, 101>>      \* 'example'
LabelCom == <<99, 111, 109>>                             \* 'com'
\* labels of the encoded names: 'a', U+00E9, 'a.', U+00E9 'aa', 'example', 'com'
Labels == {<<97>>, <<233>>, <<97, DOT>>, <<233, 97, 97>>, LabelExample, LabelCom}
Names == SeqsUpTo(Labels, MaxLabels) \ {<<>>}

\* what a resolver puts on the wire for a name: each label behind its length
\* in bytes, then a zero byte
RECURSIVE EncodeName(_)
EncodeName(labels) ==
    IF labels = <<>> THEN <<0>>
    ELSE LET raw == Utf8Encode(Head(labels))
         IN <<Len(raw)>> \o raw \o EncodeName(Tail(labels))

\* the labels joined by dots with one trailing dot
RECURSIVE DottedName(_)
DottedName(labels) ==
    IF labels = <<>> THEN <<>>
    ELSE Head(labels) \o <<DOT>> \o DottedName(Tail(labels))

QTypeA == <<0, 1, 0, 1>>          \* QTYPE A, QCLASS IN behind the name

\* a query with one additional record behind its question: the EDNS OPT
\* pseudo-record (root name, type 41, UDP payload size 4096, no options)
HdrEdns == <<170, 187, 1, 32, 0, 1, 0, 0, 0, 0, 0, 1>>
OptRecord == <<0, 0, 41, 16, 0, 0, 0, 0, 0, 0, 0>>

NoLabels == <<>>

ParseInputs ==
    {[data |-> h \o b, labels |-> NoLabels] : h \in Headers, b \in RawBodies}
    \cup {[data |-> SubSeq(HdrQuery, 1, k), labels |-> NoLabels] : k \in 0..11}
    \cup {[data |-> h \o EncodeName(n) \o QTypeA, labels |-> n] :
              h \in Opcode0Headers, n \in Names}
    \cup {[data |-> HdrEdns \o EncodeName(n) \o QTypeA \o OptRecord, labels |-> n] :
              n \in Names}

GatewayOctets == <<10, 0, 0, 1>>
IpOctetSamples == {GatewayOctets, <<192, 168, 4, 1>>, <<255, 0, 255, 9>>}
\* '10.0.0.256' and '10.0.0.x': int() or bytes() raises ValueError
BadIps == {<<49, 48, DOT, 48, DOT, 48, DOT, 50, 53, 54>>,
           <<49, 48, DOT, 48, DOT, 48, DOT, 120>>}
IpSamples == {FormatIp(o) : o \in IpOctetSamples} \cup BadIps

----------------------------------------------------------------------------
VARIABLES
    tPc,        \* "input", "parsed", "responded": how far the pure functions were applied
    tIn,        \* the datagram under test (and the name it encodes, if built from one)
    tIp,        \* the ip handed to response()
    tQuery,     \* DNSQuery(tIn.data)
    tResp       \* tQuery.response(tIp)

pureVars == <<tPc, tIn, tIp, tQuery, tResp>>

NoQuery == [raised |-> "unset", data |-> <<>>, domain |-> <<>>, ini |-> 0, reads |-> 0]
NoResp == [raised |-> "unset", packet |-> <<>>]

PureIdle ==
    /\ tPc = "off"
    /\ tIn = [data |-> <<>>, labels |-> NoLabels]
    /\ tIp = <<>>
    /\ tQuery = NoQuery
    /\ tResp = NoResp

\* DNS = DNSQuery(data)
Construct ==
    /\ tPc = "input"
    /\ tQuery' = DNSQuery(tIn.data)
    /\ tPc' = IF tQuery'.raised = "none" THEN "parsed" ELSE "raised"
    /\ UNCHANGED <<tIn, tIp, tResp>>

\* DNS.response(ip)
Respond ==
    /\ tPc = "parsed"
    /\ \E ip \in IpSamples :
          /\ tIp' = ip
          /\ tResp' = Response(tQuery, ip)
    /\ tPc' = "responded"
    /\ UNCHANGED <<tIn, tQuery>>

----------------------------------------------------------------------------
(* The server: one event loop, the DNS task, one task per HTTP connection  *)

MaxDatagrams == 3      \* datagrams (and socket errors) the UDP socket receives in one run
MaxEvents == 4         \* events of the environment in one run: datagrams, connections,
                       \* lines, closes and resets of HTTP clients

CHUNK == 1024          \* f.read(1024)

Conns == {"c1", "c2"}
NoTask == "none"
DnsTask == "dns"

FileNames == {"index.html", "image.jpg", "video.mp4"}
\* the flash file systems the server is started on: size of each file, -1 absent
FsAll == [n \in FileNames |->
            IF n = "index.html" THEN 300 ELSE IF n = "image.jpg" THEN 2500 ELSE 1024]
FsNoMedia == [n \in FileNames |-> IF n = "index.html" THEN 300 ELSE -1]
FsNoIndex == [n \in FileNames |->
            IF n = "index.html" THEN -1 ELSE IF n = "image.jpg" THEN 0 ELSE 1025]
FileSystems == {FsAll, FsNoMedia, FsNoIndex}

\* datagrams the DNS socket receives: kind says how the sample was made
DgQueryA == [kind |-> "query", data |-> HdrQuery \o EncodeName(<<<<97>>, <<97, 97>>>>) \o QTypeA,
             addr |-> "peer1", sendErr |-> FALSE]
DgQueryB == [kind |-> "query", data |-> HdrTwoQ \o EncodeName(<<<<233>>>>) \o QTypeA,
             addr |-> "peer2", sendErr |-> FALSE]
\* a query whose reply the socket refuses (sendto raises OSError)
DgQueryLost == [kind |-> "query", data |-> HdrQuery \o EncodeName(<<<<97>>>>) \o QTypeA,
                addr |-> "peer2", sendErr |-> TRUE]
DgShort == [kind |-> "short", data |-> SubSeq(HdrQuery, 1, 5), addr |-> "peer1",
            sendErr |-> FALSE]
DgTruncated == [kind |-> "truncated", data |-> HdrQuery \o <<2, 97>>, addr |-> "peer2",
                sendErr |-> FALSE]
DgOpcode == [kind |-> "opcode", data |-> HdrStatus \o EncodeName(<<<<97>>>>) \o QTypeA,
             addr |-> "peer1", sendErr |-> FALSE]
DgRoot == [kind |-> "root", data |-> HdrQuery \o <<0>> \o QTypeA, addr |-> "peer2",
           sendErr |-> FALSE]
\* a pending socket error: recvfrom raises OSError instead of returning a datagram
SockErr == [kind |-> "sockerr", data |-> <<>>, addr |-> "", sendErr |-> FALSE]

DnsSamples == {DgQueryA, DgQueryB, DgQueryLost, DgShort, DgTruncated, DgOpcode, DgRoot,
               SockErr}
\* one sample for each place of a cycle that can raise, and a valid query
LoopSamples == {DgQueryA, DgQueryLost, DgShort, DgOpcode, SockErr}
ProbeSamples == {DgQueryA, DgShort}

\* what clients write on a connection, line by line
GET_IMAGE == <<71, 69, 84, 32, 47, 105, 109, 97, 103, 101, 46, 106, 112, 103>>
GET_VIDEO == <<71, 69, 84, 32, 47, 118, 105, 100, 101, 111, 46, 109, 112, 52>>
HTTP11 == <<32, 72, 84, 84, 80, 47, 49, 46, 49, 13, 10>>           \* ' HTTP/1.1\r\n'
LineGetImage == GET_IMAGE \o HTTP11
LineGetVideo == GET_VIDEO \o HTTP11
LineGetOther == <<71, 69, 84, 32, 47, 97>> \o HTTP11               \* 'GET /a HTTP/1.1\r\n'
LinePostImage == <<80, 79, 83, 84, 32, 47, 105, 109, 97, 103, 101, 46, 106, 112, 103>> \o HTTP11
LineHost == <<72, 111, 115, 116, 58, 32, 120, 13, 10>>             \* 'Host: x\r\n'
LineBadUtf8 == <<71, 69, 84, 32, 47, 255, 13, 10>>                 \* not UTF-8
CRLF == <<13, 10>>
ClientLines == {LineGetImage, LineGetVideo, LineGetOther, LinePostImage, LineHost,
                LineBadUtf8, CRLF}

StartsWith(s, prefix) ==
    Len(s) >= Len(prefix) /\ SubSeq(s, 1, Len(prefix)) = prefix

Head200Image == "HTTP/1.0 200 OK\r\nContent-Type: image/jpeg\r\n\r\n"
Head200Video == "HTTP/1.0 200 OK\r\nContent-Type: video/mp4\r\n\r\n"
Head200 == "HTTP/1.0 200 OK\r\n\r\n"
Head404 == "HTTP/1.0 404 Not Found\r\n\r\n"

\* one awrite: a text, followed by the bytes [from, to) of a file
Written(text, file, from, to) == [text |-> text, file |-> file, from |-> from, to |-> to]

VARIABLES
    proc,       \* "running", or "exited" once the event loop was left
    v3,         \* IS_UASYNCIO_V3
    fsize,      \* the file system: size of each file, -1 when absent
    cur,        \* the task that holds the CPU between two suspension points
    inputs,     \* events the environment has produced so far
    dnsPc,      \* "wait" (queue_read), "recvd", "parsed", "sleep" (backoff), "raised"
    dnsCur,     \* the datagram recvfrom returned in this cycle
    dnsQ,       \* the DNSQuery object of this cycle
    udpIn,      \* receive queue of the UDP socket
    dnsHist,    \* one record per finished cycle of the DNS loop
    hpc,        \* per connection: where its handler task is
    peer,       \* per connection: "open", "closed" (FIN), "reset" (RST)
    inq,        \* per connection: lines received and not yet read
    reqLine,    \* per connection: request_line
    out,        \* per connection: what awrite has written, in order
    sockOpen,   \* per connection: accepted and not yet closed by aclose
    fname,      \* per connection: the file opened for streaming
    fpos,       \* per connection: read position in that file
    hexc        \* per connection: the first exception raised inside the handler

dnsVars == <<dnsPc, dnsCur, dnsQ, udpIn, dnsHist>>
httpVars == <<hpc, peer, inq, reqLine, out, sockOpen, fname, fpos, hexc>>
loopVars == <<proc, v3, fsize, cur, inputs>>
vars == <<pureVars, loopVars, dnsVars, httpVars>>

NoDatagram == [kind |-> "none", data |-> <<>>, addr |-> "", sendErr |-> FALSE, id |-> 0]

ServerInit ==
    /\ proc = "running"
    /\ v3 \in BOOLEAN
    /\ fsize \in FileSystems
    /\ cur = NoTask
    /\ inputs = 0
    /\ dnsPc = "wait"
    /\ dnsCur = NoDatagram
    /\ dnsQ = NoQuery
    /\ udpIn = <<>>
    /\ dnsHist = <<>>
    /\ hpc = [c \in Conns |-> "free"]
    /\ peer = [c \in Conns |-> "open"]
    /\ inq = [c \in Conns |-> <<>>]
    /\ reqLine = [c \in Conns |-> <<>>]
    /\ out = [c \in Conns |-> <<>>]
    /\ sockOpen = [c \in Conns |-> FALSE]
    /\ fname = [c \in Conns |-> ""]
    /\ fpos = [c \in Conns |-> 0]
    /\ hexc = [c \in Conns |-> "none"]

Init == PureIdle /\ ServerInit

\* the event loop runs task t: the loop is alive and no other task holds the CPU
Runnable(t) == proc = "running" /\ cur \in {NoTask, t}

\* An exception leaves a task.  uasyncio v2: it propagates out of
\* loop.run_forever() at once.  v3: the task is finished and queued, and the
\* loop calls the exception handler when it gets to it.
ProcAfterRaise == IF v3 THEN proc ELSE "exited"

\* an exception handler that only prints the exception
HandleExceptionPrintOnly(p) == p

\* _handle_exception: sys.exit() raises SystemExit out of the event loop
HandleException(p) == "exited"

----------------------------------------------------------------------------
(* MyApp.run_dns_server                                                    *)

\* datagrams received so far (each gets the next number as its id)
InCycle == dnsPc \in {"recvd", "parsed"}

Arrived == Len(dnsHist) + Len(udpIn) + (IF InCycle THEN 1 ELSE 0)

\* environment: a datagram (or a socket error) becomes readable on the UDP socket
DatagramArrives(samples) ==
    /\ proc = "running"
    /\ Arrived < MaxDatagrams
    /\ inputs < MaxEvents
    /\ \E s \in samples :
          udpIn' = Append(udpIn, [kind |-> s.kind, data |-> s.data, addr |-> s.addr,
                                  sendErr |-> s.sendErr, id |-> Arrived + 1])
    /\ inputs' = inputs + 1
    /\ UNCHANGED <<pureVars, proc, v3, fsize, cur, dnsPc, dnsCur, dnsQ, dnsHist, httpVars>>

\* a receive that takes the newest datagram
RecvfromNewest(queue) == queue[Len(queue)]

\* udps.recvfrom(4096): the oldest datagram of the receive queue
Recvfrom(queue) == Head(queue)

\* except OSError
CaughtOSError(exc) == exc = "OSError"

\* except Exception: every exception class raised in a cycle derives from it
Caught(exc) == exc \in {"OSError", "IndexError", "UnicodeError", "NameError", "ValueError"}

\* a finished cycle: the datagram, whether sendto was called and returned, the
\* reply and its destination, and the exception that ended the cycle
Cycle(dg, sent, reply, to, exc) ==
    [id |-> dg.id, kind |-> dg.kind, data |-> dg.data, from |-> dg.addr,
     sendErr |-> dg.sendErr, sent |-> sent, reply |-> reply, to |-> to, exc |-> exc]

\* the except clause, or the exception leaving the task
DnsRaise(dg, exc) ==
    /\ dnsHist' = Append(dnsHist, Cycle(dg, FALSE, <<>>, "", exc))
    /\ dnsCur' = NoDatagram
    /\ dnsQ' = NoQuery
    /\ cur' = NoTask
    /\ IF Caught(exc)
       THEN dnsPc' = "sleep" /\ proc' = proc          \* await asyncio.sleep_ms(3000)
       ELSE dnsPc' = "raised" /\ proc' = ProcAfterRaise

\* the socket is readable: the task is resumed and calls recvfrom
DnsRecv ==
    /\ UNCHANGED <<pureVars, v3, fsize, inputs, httpVars>>
    /\ Runnable(DnsTask)
    /\ dnsPc = "wait"
    /\ udpIn # <<>>
    /\ LET ev == Recvfrom(udpIn) IN
          /\ udpIn' = SelectSeq(udpIn, LAMBDA e : e.id # ev.id)
          /\ IF ev.kind = "sockerr"
             THEN DnsRaise(ev, "OSError")
             ELSE /\ dnsPc' = "recvd"
                  /\ dnsCur' = ev
                  /\ cur' = DnsTask
                  /\ UNCHANGED <<dnsHist, dnsQ, proc>>

\* DNS = DNSQuery(data)
DnsConstruct ==
    /\ UNCHANGED <<pureVars, v3, fsize, inputs, udpIn, httpVars>>
    /\ Runnable(DnsTask)
    /\ dnsPc = "recvd"
    /\ \E q \in {DNSQuery(dnsCur.data)} :
          IF q.raised # "none"
          THEN DnsRaise(dnsCur, q.raised)
          ELSE /\ dnsQ' = q
               /\ dnsPc' = "parsed"
               /\ UNCHANGED <<dnsCur, dnsHist, cur, proc>>

\* a response that carries the number of the cycles the loop has been through
DnsResponseNumbered(q) ==
    LET r == ResponseWith(q, ServerIpBytes) IN
    IF r.raised = "none" THEN [r EXCEPT !.packet = Append(@, Len(dnsHist))] ELSE r

\* DNS.response(SERVER_IP)
DnsResponse(q) == ResponseWith(q, ServerIpBytes)

\* udps.sendto(DNS.response(SERVER_IP), addr); then back to the top of the loop
\* and its yield
DnsReply ==
    /\ UNCHANGED <<pureVars, v3, fsize, inputs, udpIn, httpVars>>
    /\ Runnable(DnsTask)
    /\ dnsPc = "parsed"
    /\ \E r \in {DnsResponse(dnsQ)} :
          IF r.raised # "none" THEN DnsRaise(dnsCur, r.raised)
          ELSE IF dnsCur.sendErr THEN DnsRaise(dnsCur, "OSError")
          ELSE /\ dnsHist' = Append(dnsHist, Cycle(dnsCur, TRUE, r.packet, dnsCur.addr, "none"))
               /\ dnsCur' = NoDatagram
               /\ dnsQ' = NoQuery
               /\ dnsPc' = "wait"
               /\ cur' = NoTask
               /\ proc' = proc

\* the backoff sleep is over: the loop goes round and yields on the socket again
DnsWake ==
    /\ Runnable(DnsTask)
    /\ dnsPc = "sleep"
    /\ dnsPc' = "wait"
    /\ UNCHANGED <<pureVars, loopVars, dnsCur, dnsQ, udpIn, dnsHist, httpVars>>

\* uasyncio v3: the loop gets to a task that ended with an exception nobody
\* awaited and calls the handler set in MyApp.start
LoopHandleException ==
    /\ proc = "running"
    /\ v3
    /\ cur = NoTask
    /\ dnsPc = "raised" \/ \E c \in Conns : hpc[c] = "raised"
    /\ proc' = HandleException(proc)
    /\ UNCHANGED <<pureVars, v3, fsize, cur, inputs, dnsVars, httpVars>>

DnsArrival == DatagramArrives(DnsSamples)

DnsNext == DnsArrival \/ DnsRecv \/ DnsConstruct \/ DnsReply \/ DnsWake

\* the server with DNS traffic only
DnsInit == Init /\ fsize = FsAll

DnsSpec == DnsInit /\ [][DnsNext]_vars

\* the event loop resumes a task whose socket is readable or whose sleep is over,
\* and a task that holds the CPU runs on to its next suspension point
DnsFairness ==
    WF_vars(DnsRecv) /\ WF_vars(DnsConstruct) /\ WF_vars(DnsReply) /\ WF_vars(DnsWake)

LoopArrival == DatagramArrives(LoopSamples)

DnsLoopNext == LoopArrival \/ DnsRecv \/ DnsConstruct \/ DnsReply \/ DnsWake

\* the DNS loop under a fair event loop
DnsFairSpec == DnsInit /\ [][DnsLoopNext]_vars /\ DnsFairness

----------------------------------------------------------------------------
(* HTTP clients                                                            *)

Active(c) == hpc[c] \notin {"free", "done", "raised"}

\* the connections are handed out in order
NextFree(c) == hpc[c] = "free" /\ (c = "c2" => hpc["c1"] # "free")

\* a blocking stream operation: the task keeps the CPU until the operation is done
BlockingStream(c) == c

\* await on the stream (readline, awrite, aclose): the task is suspended and the
\* CPU goes back to the event loop
AwaitStream(c) == NoTask

\* a client connects; start_server accepts, creates the handler task, and the
\* task runs up to its first readline
Connect(c) ==
    /\ Runnable("accept")
    /\ inputs < MaxEvents
    /\ NextFree(c)
    /\ hpc' = [hpc EXCEPT ![c] = "reqline"]
    /\ sockOpen' = [sockOpen EXCEPT ![c] = TRUE]
    /\ cur' = AwaitStream(c)
    /\ inputs' = inputs + 1
    /\ UNCHANGED <<pureVars, proc, v3, fsize, dnsVars, peer, inq, reqLine, out, fname, fpos, hexc>>

ClientSend(c) ==
    /\ proc = "running"
    /\ inputs < MaxEvents
    /\ Active(c)
    /\ peer[c] = "open"
    /\ \E line \in ClientLines : inq' = [inq EXCEPT ![c] = Append(@, line)]
    /\ inputs' = inputs + 1
    /\ UNCHANGED <<pureVars, proc, v3, fsize, cur, dnsVars, hpc, peer, reqLine, out, sockOpen,
                   fname, fpos, hexc>>

\* the client closes its side (FIN), or the connection is reset (RST)
ClientEnds(c) ==
    /\ proc = "running"
    /\ inputs < MaxEvents
    /\ Active(c)
    /\ peer[c] = "open"
    /\ \E how \in {"closed", "reset"} : peer' = [peer EXCEPT ![c] = how]
    /\ inputs' = inputs + 1
    /\ UNCHANGED <<pureVars, proc, v3, fsize, cur, dnsVars, hpc, inq, reqLine, out, sockOpen,
                   fname, fpos, hexc>>

----------------------------------------------------------------------------
(* MyApp.handle_http_connection                                            *)

\* reader.readline() returns once a line is buffered, the peer has closed
\* (then it returns b''), or the connection is broken (then it raises)
CanRead(c) == inq[c] # <<>> \/ peer[c] # "open"

ReadLine(c) == IF inq[c] # <<>> THEN Head(inq[c]) ELSE <<>>

\* what one run of the handler between two awaits leaves behind
Step(pc, o, file, pos, exc) == [pc |-> pc, out |-> o, fname |-> file, fpos |-> pos, exc |-> exc]

Stay(c, pc) == Step(pc, out[c], fname[c], fpos[c], "none")

Raise(c, exc) == Step("raised", out[c], fname[c], fpos[c], exc)

\* except OSError: await writer.awrite('HTTP/1.0 404 Not Found\r\n\r\n')
Write404(c, exc) ==
    IF peer[c] = "reset"
    THEN Raise(c, exc)
    ELSE Step("flush", Append(out[c], Written(Head404, "", 0, 0)), fname[c], fpos[c], exc)

\* a handler that writes the 200 status line before it opens the file
ServeMediaHeadFirst(c, name, head) ==
    IF peer[c] = "reset" THEN Write404(c, "ECONNRESET")
    ELSE IF fsize[name] < 0
    THEN Step("flush", out[c] \o <<Written(head, "", 0, 0), Written(Head404, "", 0, 0)>>,
              fname[c], fpos[c], "ENOENT")
    ELSE Step("stream", Append(out[c], Written(head, "", 0, 0)), name, 0, "none")

\* try: with open(name, 'rb') as f: await writer.awrite(head) ...
ServeMedia(c, name, head) ==
    IF fsize[name] < 0 THEN Write404(c, "ENOENT")
    ELSE IF peer[c] = "reset" THEN Write404(c, "ECONNRESET")
    ELSE Step("stream", Append(out[c], Written(head, "", 0, 0)), name, 0, "none")

\* response = 'HTTP/1.0 200 OK\r\n\r\n' + f.read(); await writer.awrite(response)
ServePage(c) ==
    IF fsize["index.html"] < 0 THEN Raise(c, "ENOENT")
    ELSE IF peer[c] = "reset" THEN Raise(c, "ECONNRESET")
    ELSE Step("flush", Append(out[c], Written(Head200, "index.html", 0, fsize["index.html"])),
              fname[c], fpos[c], "none")

\* a dispatch on the path alone, whatever the method
DispatchByPath(c) ==
    IF Len(reqLine[c]) > 0
    THEN IF \E k \in 1..Len(reqLine[c]) :
               StartsWith(SubSeq(reqLine[c], k, Len(reqLine[c])), SubSeq(GET_IMAGE, 4, 14))
         THEN ServeMedia(c, "image.jpg", Head200Image)
         ELSE IF \E k \in 1..Len(reqLine[c]) :
               StartsWith(SubSeq(reqLine[c], k, Len(reqLine[c])), SubSeq(GET_VIDEO, 4, 14))
         THEN ServeMedia(c, "video.mp4", Head200Video)
         ELSE ServePage(c)
    ELSE Stay(c, "closing")

\* "Handle the request", up to the first await
Dispatch(c) ==
    IF Len(reqLine[c]) > 0
    THEN IF StartsWith(reqLine[c], GET_IMAGE) THEN ServeMedia(c, "image.jpg", Head200Image)
         ELSE IF StartsWith(reqLine[c], GET_VIDEO) THEN ServeMedia(c, "video.mp4", Head200Video)
         ELSE ServePage(c)
    ELSE Stay(c, "closing")

\* a streaming loop that stops at the first chunk shorter than 1024 bytes
\* without writing it
StreamChunkFullOnly(c, readOk) ==
    LET n == Min(CHUNK, fsize[fname[c]] - fpos[c]) IN
    IF ~readOk THEN Write404(c, "EIO")
    ELSE IF n < CHUNK THEN Stay(c, "closing")
    ELSE IF peer[c] = "reset" THEN Write404(c, "ECONNRESET")
    ELSE Step("stream", Append(out[c], Written("", fname[c], fpos[c], fpos[c] + n)),
              fname[c], fpos[c] + n, "none")

\* chunk = f.read(1024); if not chunk: break; await writer.awrite(chunk)
StreamChunk(c, readOk) ==
    LET n == Min(CHUNK, fsize[fname[c]] - fpos[c]) IN
    IF ~readOk THEN Write404(c, "EIO")
    ELSE IF n = 0 THEN Stay(c, "closing")
    ELSE IF peer[c] = "reset" THEN Write404(c, "ECONNRESET")
    ELSE Step("stream", Append(out[c], Written("", fname[c], fpos[c], fpos[c] + n)),
              fname[c], fpos[c] + n, "none")

\* the handler of c ran from one await to the next (or to its end) and left r
HttpStep(c, r) ==
    /\ hpc' = [hpc EXCEPT ![c] = r.pc]
    /\ out' = [out EXCEPT ![c] = r.out]
    /\ fname' = [fname EXCEPT ![c] = r.fname]
    /\ fpos' = [fpos EXCEPT ![c] = r.fpos]
    /\ hexc' = [hexc EXCEPT ![c] = IF @ = "none" THEN r.exc ELSE @]
    /\ proc' = IF r.pc = "raised" THEN ProcAfterRaise ELSE proc
    /\ cur' = IF r.pc \in {"raised", "done"} THEN NoTask ELSE AwaitStream(c)

\* data = await reader.readline(); request_line = data.decode()
HttpRequestLine(c) ==
    /\ Runnable(c)
    /\ hpc[c] = "reqline"
    /\ CanRead(c)
    /\ IF peer[c] = "reset"
       THEN HttpStep(c, Raise(c, "ECONNRESET")) /\ UNCHANGED <<inq, reqLine>>
       ELSE LET text == Utf8Decode(ReadLine(c)) IN
            /\ inq' = [inq EXCEPT ![c] = IF @ = <<>> THEN @ ELSE Tail(@)]
            /\ IF text = DecodeError
               THEN HttpStep(c, Raise(c, "UnicodeError")) /\ UNCHANGED reqLine
               ELSE HttpStep(c, Stay(c, "headers")) /\ reqLine' = [reqLine EXCEPT ![c] = text]
    /\ UNCHANGED <<pureVars, v3, fsize, inputs, dnsVars, peer, sockOpen>>

\* a header loop that is left after any line
AnyLineEnds(line) == TRUE

\* if line == b'\r\n': break
EndOfHeaders(line) == line = CRLF

\* line = await reader.readline(); if line == b'\r\n': break -- and what follows
\* the loop, up to the next await
HttpHeader(c) ==
    /\ Runnable(c)
    /\ hpc[c] = "headers"
    /\ CanRead(c)
    /\ IF peer[c] = "reset"
       THEN HttpStep(c, Raise(c, "ECONNRESET")) /\ UNCHANGED inq
       ELSE /\ inq' = [inq EXCEPT ![c] = IF @ = <<>> THEN @ ELSE Tail(@)]
            /\ IF EndOfHeaders(ReadLine(c))
               THEN HttpStep(c, Dispatch(c))
               ELSE HttpStep(c, Stay(c, "headers"))
    /\ UNCHANGED <<pureVars, v3, fsize, inputs, dnsVars, peer, reqLine, sockOpen>>

\* the previous awrite is done: the streaming loop goes round
HttpStream(c) ==
    /\ Runnable(c)
    /\ hpc[c] = "stream"
    /\ \E readOk \in BOOLEAN : HttpStep(c, StreamChunk(c, readOk))
    /\ UNCHANGED <<pureVars, v3, fsize, inputs, dnsVars, peer, inq, reqLine, sockOpen>>

\* the last awrite is done: await writer.aclose() begins
HttpFlushed(c) ==
    /\ Runnable(c)
    /\ hpc[c] = "flush"
    /\ HttpStep(c, Stay(c, "closing"))
    /\ UNCHANGED <<pureVars, v3, fsize, inputs, dnsVars, peer, inq, reqLine, sockOpen>>

\* aclose closes the socket and the handler returns
HttpClose(c) ==
    /\ Runnable(c)
    /\ hpc[c] = "closing"
    /\ HttpStep(c, Stay(c, "done"))
    /\ sockOpen' = [sockOpen EXCEPT ![c] = FALSE]
    /\ UNCHANGED <<pureVars, v3, fsize, inputs, dnsVars, peer, inq, reqLine>>

Connects == \E c \in Conns : Connect(c)
ClientSends == \E c \in Conns : ClientSend(c)
ClientEndings == \E c \in Conns : ClientEnds(c)
HttpRequestLines == \E c \in Conns : HttpRequestLine(c)
HttpHeaders == \E c \in Conns : HttpHeader(c)
HttpStreams == \E c \in Conns : HttpStream(c)
HttpFlushes == \E c \in Conns : HttpFlushed(c)
HttpCloses == \E c \in Conns : HttpClose(c)

HttpNext ==
    \/ Connects \/ ClientSends \/ ClientEndings
    \/ HttpRequestLines \/ HttpHeaders \/ HttpStreams \/ HttpFlushes \/ HttpCloses
    \/ LoopHandleException

\* the server with HTTP traffic only
HttpSpec == Init /\ [][HttpNext]_vars

\* one step of the handler task of c
HandlerStep(c) ==
    HttpRequestLine(c) \/ HttpHeader(c) \/ HttpStream(c) \/ HttpFlushed(c) \/ HttpClose(c)

\* the HTTP server under a fair event loop: a handler that is ready to run gets
\* to run, and a task that failed is got to; nothing is assumed of the clients
HttpFairSpec ==
    /\ Init /\ [][HttpNext]_vars
    /\ \A c \in Conns : WF_vars(HandlerStep(c))
    /\ WF_vars(LoopHandleException)

ProbeArrival == DatagramArrives(ProbeSamples)

\* the whole server: DNS probes and HTTP clients
Next == ProbeArrival \/ DnsRecv \/ DnsConstruct \/ DnsReply \/ DnsWake \/ HttpNext

Spec == Init /\ [][Next]_vars

\* the whole server under a fair event loop: a task that is ready to run gets
\* to run, and a task that failed is got to; nothing is assumed of the clients
FairSpec == DnsInit /\ [][Next]_vars /\ DnsFairness /\ WF_vars(LoopHandleException)

----------------------------------------------------------------------------
(* The parser and the response builder on every input of ParseInputs, next *)
(* to the DNS loop receiving the same datagram                             *)

ParseInit ==
    /\ tPc = "input"
    /\ tIn \in ParseInputs
    /\ tIp = <<>>
    /\ tQuery = NoQuery
    /\ tResp = NoResp
    /\ proc = "running"
    /\ v3 = TRUE
    /\ fsize = FsAll
    /\ cur = NoTask
    /\ inputs = 1
    /\ dnsPc = "wait"
    /\ dnsCur = NoDatagram
    /\ dnsQ = NoQuery
    /\ udpIn = <<[kind |-> "input", data |-> tIn.data, addr |-> "peer1", sendErr |-> FALSE,
                  id |-> 1]>>
    /\ dnsHist = <<>>
    /\ hpc = [c \in Conns |-> "free"]
    /\ peer = [c \in Conns |-> "open"]
    /\ inq = [c \in Conns |-> <<>>]
    /\ reqLine = [c \in Conns |-> <<>>]
    /\ out = [c \in Conns |-> <<>>]
    /\ sockOpen = [c \in Conns |-> FALSE]
    /\ fname = [c \in Conns |-> ""]
    /\ fpos = [c \in Conns |-> 0]
    /\ hexc = [c \in Conns |-> "none"]

ConstructStep == Construct /\ UNCHANGED <<loopVars, dnsVars, httpVars>>
RespondStep == Respond /\ UNCHANGED <<loopVars, dnsVars, httpVars>>

ParseNext == ConstructStep \/ RespondStep \/ DnsRecv \/ DnsConstruct \/ DnsReply \/ DnsWake

ParseSpec == ParseInit /\ [][ParseNext]_vars

----------------------------------------------------------------------------
(* Properties of DNSQuery and DNSQuery.response                            *)

Last4(p) == SubSeq(p, Len(p) - 3, Len(p))

Responded == tPc = "responded" /\ tResp.raised = "none"

\* C7: for every parsed query with a non-empty domain and every valid
\* dotted-quad ip, response(ip) is built, starts with the two transaction-id
\* bytes of the query and ends with the four octets of ip in order; every reply
\* the DNS loop sends ends with the octets of SERVER_IP, 10.0.0.1, and starts
\* with the transaction id of the datagram it answers.
C7_ResponseCopiesIdAndIp ==
    /\ FormatIp(GatewayOctets) = SERVER_IP
    /\ \A o \in IpOctetSamples :
          (tPc = "responded" /\ tQuery.domain # <<>> /\ tIp = FormatIp(o))
             => /\ tResp.raised = "none"
                /\ SubSeq(tResp.packet, 1, 2) = SubSeq(tIn.data, 1, 2)
                /\ Last4(tResp.packet) = o
    /\ \A i \in 1..Len(dnsHist) :
          dnsHist[i].sent
             => /\ SubSeq(dnsHist[i].reply, 1, 2) = SubSeq(dnsHist[i].data, 1, 2)
                /\ Last4(dnsHist[i].reply) = GatewayOctets

\* a response was built for 192.168.4.1 and for a name of two labels, and the
\* DNS loop has sent its reply to the same datagram
C7_Witness ==
    /\ Responded
    /\ tIp = FormatIp(<<192, 168, 4, 1>>)
    /\ Len(tIn.labels) = 2
    /\ Last4(tResp.packet) = <<192, 168, 4, 1>>
    /\ Len(dnsHist) = 1 /\ dnsHist[1].sent

\* C8: for an opcode-0 query whose question count field is 1 and whose name is
\* not empty, bytes 4-5 and bytes 6-7 of the response are both 0,1 and bytes
\* 8-11 are zero, whatever the question section holds.
C8_CountsAreOneOne ==
    (Responded /\ Opcode(tIn.data) = 0 /\ SubSeq(tIn.data, 5, 6) = <<0, 1>>)
       => /\ SubSeq(tResp.packet, 5, 6) = <<0, 1>>
          /\ SubSeq(tResp.packet, 7, 8) = <<0, 1>>
          /\ SubSeq(tResp.packet, 9, 12) = <<0, 0, 0, 0>>

\* a response to a one-question query whose question section is the raw bytes
\* 1, 'a', 0 with no type and class behind the name
C8_Witness ==
    /\ Responded
    /\ tIn.data = HdrQuery \o <<1, 97, 0>>
    /\ SubSeq(tResp.packet, 5, 8) = <<0, 1, 0, 1>>

\* C10: a name of non-empty labels, encoded as length-prefixed labels and a
\* zero byte at offset 12 of an opcode-0 datagram, parses without an exception
\* to the labels joined by dots with one trailing dot.
C10_ParseRoundTrip ==
    (tPc # "input" /\ tIn.labels # NoLabels)
       => /\ SubSeq(tIn.data, 13, 12 + Len(EncodeName(tIn.labels))) = EncodeName(tIn.labels)
          /\ Opcode(tIn.data) = 0
          /\ tQuery.raised = "none"
          /\ tQuery.domain = DottedName(tIn.labels)

\* 'example.com' was parsed to 'example.com.'
C10_Witness ==
    /\ tPc = "parsed"
    /\ tIn.labels = <<LabelExample, LabelCom>>
    /\ tQuery.domain = LabelExample \o <<DOT>> \o LabelCom \o <<DOT>>

----------------------------------------------------------------------------
(* Properties of the DNS loop                                              *)

\* a valid query: it parses to a non-empty name and the socket takes its reply
Answerable(dg) == dg.kind = "query" /\ ~dg.sendErr

FailedCycle(h) == h.exc # "none"

\* every datagram received so far has been through its cycle, the loop is
\* waiting for the next one, and every valid query among them was answered
AllAnswered ==
    /\ dnsPc = "wait"
    /\ udpIn = <<>>
    /\ \A i \in 1..Len(dnsHist) : Answerable(dnsHist[i]) => dnsHist[i].sent

\* C1: an exception raised in a cycle of the DNS loop (by recvfrom, by the
\* DNSQuery constructor, by response(), by sendto) is caught in the loop and
\* followed by the backoff sleep, after the sleep the loop waits for the next
\* datagram, the task never ends, and whatever cycles failed, the loop comes
\* back to waiting with every valid query it received answered.
C1_LoopSurvivesFailedCycles ==
    /\ [][(Len(dnsHist') = Len(dnsHist) + 1 /\ FailedCycle(dnsHist'[Len(dnsHist')]))
            => (dnsPc' = "sleep" /\ proc' = "running")]_vars
    /\ [][dnsPc = "sleep" => dnsPc' \in {"sleep", "wait"}]_vars
    /\ [](dnsPc # "raised" /\ proc = "running")
    /\ <>[]AllAnswered

\* two cycles failed, one in the constructor and one in response() or in a
\* socket call, and the query received after them was answered
C1_Witness ==
    /\ Len(dnsHist) = 3
    /\ dnsHist[1].exc = "IndexError"
    /\ dnsHist[2].exc \in {"NameError", "OSError"}
    /\ dnsHist[3].sent
    /\ dnsPc = "wait"

\* the datagrams C5 is about, told from their bytes or from how they were made
Unanswerable(h) ==
    \/ h.kind \in {"short", "truncated", "opcode", "root"}
    \/ Len(h.data) < 12
    \/ Len(h.data) >= 12 /\ Opcode(h.data) # 0
    \/ Len(h.data) > 12 /\ Opcode(h.data) = 0 /\ h.data[13] = 0

\* C5: for a datagram that fails to parse (shorter than the header, truncated
\* label sequence), that has a non-zero opcode, or whose name is empty (the
\* root name), sendto is never called: no reply is sent.
C5_NoReplyToUnanswerable ==
    \A i \in 1..Len(dnsHist) :
        Unanswerable(dnsHist[i]) => (~dnsHist[i].sent /\ dnsHist[i].reply = <<>>)

\* a non-zero opcode, a root-name query and a truncated datagram went through
\* the loop
C5_Witness ==
    /\ Len(dnsHist) = 3
    /\ {dnsHist[i].kind : i \in 1..3} = {"opcode", "root", "truncated"}
    /\ \A i \in 1..3 : ~dnsHist[i].sent

\* C6: a datagram with a non-zero opcode is parsed without an exception to an
\* empty domain, and its cycle of the DNS loop raises nothing: no error path,
\* no backoff sleep.
C6_OpcodeIsNoError ==
    \A i \in 1..Len(dnsHist) :
        dnsHist[i].kind = "opcode"
           => /\ DNSQuery(dnsHist[i].data).raised = "none"
              /\ DNSQuery(dnsHist[i].data).domain = <<>>
              /\ dnsHist[i].exc = "none"

\* C9: the DNS loop takes the datagrams one at a time in the order they were
\* received: the cycle of a datagram (up to its reply, or to the end of its
\* backoff sleep) is over before the next one is read, every answerable
\* datagram gets exactly one reply, sent to the address it came from, no other
\* datagram gets one, and the replies go out in the order of their queries.
C9_OneAtATimeInOrder ==
    /\ \A i \in 1..Len(dnsHist) :
          /\ dnsHist[i].id = i
          /\ dnsHist[i].sent <=> Answerable(dnsHist[i])
          /\ dnsHist[i].sent => (dnsHist[i].to = dnsHist[i].from /\ dnsHist[i].reply # <<>>)
    /\ InCycle => (dnsCur.id = Len(dnsHist) + 1 /\ cur = DnsTask)
    /\ ~InCycle => dnsCur = NoDatagram
    /\ \A j \in 1..Len(udpIn) :
          udpIn[j].id = Len(dnsHist) + (IF InCycle THEN 1 ELSE 0) + j

\* three datagrams were queued at the same time and handled: a query from
\* peer1 answered, a failed cycle, a query from peer2 answered
C9_Witness ==
    /\ Len(dnsHist) = 3
    /\ dnsHist[1].sent /\ dnsHist[1].to = "peer1"
    /\ dnsHist[2].exc # "none"
    /\ dnsHist[3].sent /\ dnsHist[3].to = "peer2"

----------------------------------------------------------------------------
(* Properties of the two servers side by side                              *)

Failed(c) == hpc[c] = "raised"

\* a handler is between two chunk writes of a media file
Streaming(c) == hpc[c] = "stream" /\ Len(out[c]) >= 2

\* C2: whatever the HTTP handlers do (stream a media file chunk by chunk, wait
\* for a line of a client that stays silent), under a fair event loop the DNS
\* loop gets to every datagram: it comes back to waiting with every valid query
\* it received answered, unless a handler failed.
C2_HttpNeverBlocksDns == <>[](AllAnswered \/ \E c \in Conns : Failed(c))

\* the DNS loop took a valid query off the socket and parsed it between two
\* chunk writes of a handler that is in the middle of its file
C2_Witness ==
    /\ Streaming("c1")
    /\ 0 < fpos["c1"] /\ fpos["c1"] < fsize[fname["c1"]]
    /\ dnsPc = "parsed"
    /\ Answerable(dnsCur)
    /\ \A c \in Conns : ~Failed(c)

\* C3 as stated: a handler that failed leaves the rest of the server running.
C3_Original == \A c \in Conns : Failed(c) => proc = "running"

\* C3: an exception that escapes a connection handler ends the whole process:
\* where exceptions propagate out of the event loop, at once; where the loop
\* hands them to _handle_exception, when the loop gets to the failed task, and
\* under a fair loop it does.  Once the process has exited no task takes a
\* step: queued datagrams stay unanswered and open connections unserved.
C3_FailureEndsTheProcess ==
    /\ [](\A c \in Conns : (Failed(c) /\ ~v3) => proc = "exited")
    /\ [](proc = "exited" => \E c \in Conns : Failed(c))
    /\ [][proc # "exited"]_vars
    /\ <>[]((\E c \in Conns : Failed(c)) => proc = "exited")

\* the exception handler ended the process while a query was queued on the UDP
\* socket and the other connection was waiting to be served
C3_Witness ==
    /\ v3
    /\ Failed("c1")
    /\ proc = "exited"
    /\ Active("c2")
    /\ \E i \in 1..Len(udpIn) : Answerable(udpIn[i])

\* C4: a handler that has ended, by returning or by an exception, has closed
\* its connection.
C4_ClosedOnEveryExit ==
    \A c \in Conns : hpc[c] \in {"done", "raised"} => ~sockOpen[c]

----------------------------------------------------------------------------
(* Properties of the replies and of the HTTP responses                     *)

\* C11: two replies of the DNS loop to datagrams of the same bytes are the same
\* bytes, whatever cycles and connections were handled between them, and each
\* is response(SERVER_IP) of the query parsed from those bytes.
C11_SameQuerySameReply ==
    /\ \A i, j \in 1..Len(dnsHist) :
          (dnsHist[i].sent /\ dnsHist[j].sent /\ dnsHist[i].data = dnsHist[j].data)
             => dnsHist[i].reply = dnsHist[j].reply
    /\ \A i \in 1..Len(dnsHist) :
          dnsHist[i].sent
             => dnsHist[i].reply = Response(DNSQuery(dnsHist[i].data), SERVER_IP).packet

\* the same query was answered twice, with a failed cycle between the two and
\* a connection being handled
C11_Witness ==
    /\ Len(dnsHist) = 3
    /\ dnsHist[1].sent /\ dnsHist[3].sent
    /\ dnsHist[2].exc = "IndexError"
    /\ dnsHist[1].data = dnsHist[3].data
    /\ dnsHist[1].reply = dnsHist[3].reply
    /\ \E c \in Conns : Active(c)

MediaFiles == {"image.jpg", "video.mp4"}

\* the file a request line asks for
Asked(line) ==
    IF StartsWith(line, GET_IMAGE) THEN "image.jpg"
    ELSE IF StartsWith(line, GET_VIDEO) THEN "video.mp4"
    ELSE "index.html"

MediaHead(name) == IF name = "image.jpg" THEN Head200Image ELSE Head200Video

\* the handler of c went through the header block of a request for name
Requested(c, name) ==
    /\ hpc[c] \notin {"free", "reqline", "headers"}
    /\ Len(reqLine[c]) > 0
    /\ Asked(reqLine[c]) = name

\* the writes w are bytes of the file name only, each at most CHUNK bytes, each
\* starting where the one before it ended, from byte 0 to byte upto
ChunksCover(w, name, upto) ==
    /\ \A k \in 1..Len(w) :
          /\ w[k].text = "" /\ w[k].file = name
          /\ w[k].from = (IF k = 1 THEN 0 ELSE w[k - 1].to)
          /\ w[k].from < w[k].to /\ w[k].to - w[k].from <= CHUNK
    /\ upto = (IF w = <<>> THEN 0 ELSE w[Len(w)].to)

\* C12: for a request of a media file that is present, with no read and no
\* write failing, the first write is the 200 status line with the Content-Type
\* of the file, the writes after it are chunks of at most 1024 bytes that make
\* up the file from its first byte to its last when the handler is done, and
\* the connection stays open until then: it is closed only with the whole file
\* written, and nothing is written on a closed connection.
C12_MediaServedInOrder ==
    /\ [](\A c \in Conns : \A name \in MediaFiles :
            (Requested(c, name) /\ fsize[name] >= 0 /\ hexc[c] = "none")
               => /\ out[c] # <<>>
                  /\ out[c][1] = Written(MediaHead(name), "", 0, 0)
                  /\ ChunksCover(Tail(out[c]), name, fpos[c])
                  /\ hpc[c] = "done" => (fpos[c] = fsize[name] /\ ~sockOpen[c])
                  /\ hpc[c] # "done" => sockOpen[c])
    /\ [][\A c \in Conns : out'[c] # out[c] => (sockOpen[c] /\ sockOpen'[c])]_vars

\* the 2500 bytes of image.jpg were served in chunks of 1024, 1024 and 452
\* bytes and the connection was closed
C12_Witness ==
    /\ Requested("c1", "image.jpg")
    /\ hpc["c1"] = "done" /\ hexc["c1"] = "none"
    /\ Len(out["c1"]) = 4
    /\ out["c1"][4] = Written("", "image.jpg", 2048, 2500)
    /\ ~sockOpen["c1"]

NotFound == Written(Head404, "", 0, 0)

\* C13: for a request of a media file that is absent, the handler writes the
\* 404 status line and nothing else (no 200 status line, no byte of a file),
\* the connection is closed when the handler is done, and the handler ends any
\* other way only if the client has reset the connection under that write.
C13_AbsentMediaIs404 ==
    \A c \in Conns : \A name \in MediaFiles :
        (Requested(c, name) /\ fsize[name] < 0)
           => /\ out[c] \in {<<>>, <<NotFound>>}
              /\ hpc[c] \in {"flush", "closing", "done", "raised"}
              /\ hpc[c] # "raised" => out[c] = <<NotFound>>
              /\ hpc[c] = "done" => ~sockOpen[c]
              /\ hpc[c] = "raised" => (peer[c] = "reset" /\ out[c] = <<>>)

\* image.jpg is absent, was asked for, and the handler wrote the 404 and closed
C13_Witness ==
    /\ Requested("c1", "image.jpg")
    /\ fsize["image.jpg"] < 0
    /\ hpc["c1"] = "done"
    /\ out["c1"] = <<NotFound>>
    /\ ~sockOpen["c1"]

\* C14: a request whose line does not start with "GET /image.jpg" or
\* "GET /video.mp4" (another path, another method), once its header block is
\* read, with index.html present and the write succeeding, is answered by one
\* write: "HTTP/1.0 200 OK", the empty line (no Content-Type), and the whole of
\* index.html; the connection is closed when the handler is done.
C14_OtherRequestsGetThePage ==
    \A c \in Conns :
        (/\ Requested(c, "index.html")
         /\ ~StartsWith(reqLine[c], GET_IMAGE) /\ ~StartsWith(reqLine[c], GET_VIDEO)
         /\ fsize["index.html"] >= 0
         /\ hexc[c] = "none")
           => /\ out[c] = <<Written(Head200, "index.html", 0, fsize["index.html"])>>
              /\ hpc[c] \in {"flush", "closing", "done"}
              /\ hpc[c] = "done" <=> ~sockOpen[c]

\* 'POST /image.jpg HTTP/1.1' was answered with the 300 bytes of index.html
C14_Witness ==
    /\ reqLine["c1"] = Utf8Decode(LinePostImage)
    /\ hpc["c1"] = "done"
    /\ out["c1"] = <<Written(Head200, "index.html", 0, 300)>>
    /\ ~sockOpen["c1"]

\* C15: whenever the file a request asks for is absent (a media file or
\* index.html) and the client is still there, the handler, once through the
\* header block, has written the 404 status line.
C15_AbsentFileIs404 ==
    \A c \in Conns : \A name \in FileNames :
        (Requested(c, name) /\ fsize[name] < 0 /\ peer[c] # "reset")
           => \E k \in 1..Len(out[c]) : out[c][k] = NotFound

\* the writes of c that carry a status line
StatusLines(c) == {k \in 1..Len(out[c]) : out[c][k].text # ""}

\* C16: a read of an opened media file or a chunk write that fails ends the
\* handler with that failure and is not answered with a 404: at most one status
\* line is written on a connection, and never the 404 after the 200.
C16_FailureAfterOpenPropagates ==
    \A c \in Conns :
        /\ hexc[c] \in {"EIO", "ECONNRESET"} => hpc[c] = "raised"
        /\ Cardinality(StatusLines(c)) <= 1
        /\ \A j, k \in 1..Len(out[c]) :
              (j < k /\ out[c][j].text \in {Head200Image, Head200Video, Head200})
                 => out[c][k] # NotFound

\* the next line readline hands to the handler of c is the blank line
BlankLineNext(c) == inq[c] # <<>> /\ Head(inq[c]) = CRLF

\* C17: the handler reads the request line, then header lines until it reads
\* the line "\r\n", and only then writes or closes: while it waits for the
\* request line or for a header line nothing is written and the connection is
\* open, the header loop is left (other than by an exception) only by the step
\* that reads the blank line, and no step before that one writes or closes.
C17_ReadsBeforeItWrites ==
    /\ [](\A c \in Conns :
            hpc[c] \in {"reqline", "headers"} => (out[c] = <<>> /\ sockOpen[c]))
    /\ [][\A c \in Conns :
            (hpc[c] = "reqline" /\ hpc'[c] # "reqline") => hpc'[c] \in {"headers", "raised"}]_vars
    /\ [][\A c \in Conns :
            (hpc[c] = "headers" /\ hpc'[c] \notin {"headers", "raised"})
               => (BlankLineNext(c) /\ inq'[c] = Tail(inq[c]))]_vars
    /\ [][\A c \in Conns :
            (out'[c] # out[c] \/ (sockOpen[c] /\ ~sockOpen'[c]))
               => (hpc[c] # "reqline" /\ (hpc[c] = "headers" => BlankLineNext(c)))]_vars

\* the handler read a request line, one header line and the blank line, and
\* has written its response
C17_Witness ==
    /\ hpc["c1"] = "flush" /\ out["c1"] # <<>>
    /\ inq["c1"] = <<>> /\ peer["c1"] = "open"
    /\ hpc["c2"] = "free"
    /\ inputs = 4

\* C18: when the client closes the connection while the handler is in the
\* header loop and no blank line is on its way, the handler leaves the loop and
\* its task ends (or the whole process has ended).
C18_DisconnectEndsTheHandler ==
    \A c \in Conns :
        (hpc[c] = "headers" /\ peer[c] = "closed")
           ~> (hpc[c] \in {"done", "raised"} \/ proc = "exited")

----------------------------------------------------------------------------
(* Properties of the label loop and of the layout of the response          *)

\* the labels the loop appended to the domain before it ended
LabelsDone(q) == IF q.raised = "IndexError" THEN q.reads ELSE q.reads - 1

\* the constructor ran the label loop on the datagram under test
LoopRan == tQuery.raised # "unset" /\ InRange(tIn.data, 2) /\ Opcode(tIn.data) = 0

\* C19 as stated: the loop ends at a zero length byte or with an out-of-range
\* access, and in no other way.
C19_Original == LoopRan => tQuery.raised \in {"none", "IndexError"}

\* C19: the label loop ends for every datagram, in one of three ways: at a zero
\* length byte inside the datagram (a query is returned), with a read of a
\* length byte past the end of the datagram (IndexError), or at a label that is
\* not valid UTF-8 (UnicodeError).  Each label moves the cursor on by at least 2
\* bytes, so the number of length bytes read is bounded by the size of the
\* datagram, and the cursor never is before offset 12.
C19_LabelLoopTerminates ==
    LoopRan =>
        /\ tQuery.raised \in {"none", "IndexError", "UnicodeError"}
        /\ tQuery.ini >= 12
        /\ tQuery.ini >= 12 + 2 * LabelsDone(tQuery)
        /\ tQuery.raised = "none"
              => (InRange(tIn.data, tQuery.ini) /\ tIn.data[tQuery.ini + 1] = 0)
        /\ tQuery.raised = "IndexError" => tQuery.ini >= Len(tIn.data)
        /\ tQuery.raised = "UnicodeError"
              => (InRange(tIn.data, tQuery.ini) /\ tIn.data[tQuery.ini + 1] # 0)
        /\ Len(tIn.data) >= 12 => tQuery.reads <= (Len(tIn.data) - 12) \div 2 + 1
        /\ Len(tIn.data) < 12 => tQuery.reads = 0

\* the loop went through two labels, of 1 and 4 bytes, and ended at the zero
\* byte at offset 19 with three length bytes read
C19_Witness ==
    /\ LoopRan
    /\ tQuery.raised = "none"
    /\ tIn.labels = <<<<97>>, <<233, 97, 97>>>>
    /\ tQuery.reads = 3
    /\ tQuery.ini = 19

\* the question section of a query datagram: the name, up to its zero byte at
\* offset q.ini, and the four bytes of QTYPE and QCLASS behind it
QuestionSection(q) == PySlice(q.data, 12, q.ini + 5)

\* the answer record: pointer 0xC00C, type A, class IN, TTL 60, length 4
AnswerFixed == <<192, 12, 0, 1, 0, 1, 0, 0, 0, 60, 0, 4>>

\* C20: every response is the 12-byte header, the question section of the
\* query and nothing else, and the 16-byte answer record, so its length is 12 +
\* the length of the question section + 16, also for a query that carries
\* further records behind its question.
C20_OnlyTheQuestionIsCopied ==
    Responded =>
        /\ Len(tResp.packet) = 12 + Len(QuestionSection(tQuery)) + 16
        /\ SubSeq(tResp.packet, 13, Len(tResp.packet) - 16) = QuestionSection(tQuery)
        /\ SubSeq(tResp.packet, Len(tResp.packet) - 15, Len(tResp.packet) - 4) = AnswerFixed

====
